---- MODULE Spec2Model ----
(***************************************************************************)
(* A model of chezmoi's apply path (cmd/config.go: Config.applyArgs and    *)
(* the helpers it calls) over a small destination tree, one idempotency    *)
(* store and a source state that the user may edit between runs.           *)
(*                                                                         *)
(* Config.applyArgs, getEntries, getPersistentState and getTargetState are *)
(* translated from cmd/config.go.  The entry model (Dir/File/Script        *)
(* Apply), TargetState.Apply, the mutators and the persistent state live   *)
(* in internal/chezmoi, which is not part of the sources at hand; they are *)
(* modelled from sections 4.3, 4.5 and 4.6 of the specification.           *)
(***************************************************************************)
EXTENDS Integers, Sequences, FiniteSets, TLC

(***************************************************************************)
(* Bounds of the model.                                                    *)
(***************************************************************************)
MaxContent == 2   \* distinct script contents
MaxArgs    == 2   \* explicitly named targets per apply
MaxRuns    == 2   \* apply runs per behaviour
MaxVersion == 2   \* program versions and MinVersion values
MaxNameLen == 2   \* atoms in a target name
MaxKeys == 3      \* template function names besides the pre-loaded one
MaxValue == 2     \* distinct template function values
MaxEnsure == 2    \* successive calls of ensureSourceDirectory
MaxOps == 3       \* operations on one TARSystem

\* A nil *semver.Version (Version, ts.MinVersion).
NoVersion == 0

Contents == 1..MaxContent
Versions == 1..MaxVersion

(***************************************************************************)
(* Target paths, relative to DestDir, as sequences of components.          *)
(***************************************************************************)
DirA     == <<"a">>
DirAB    == <<"a", "b">>
FileABC  == <<"a", "b", "c">>
ScriptS  == <<"s">>
ExtraAX  == <<"a", "x">>        \* never in the source state
ExtraABY == <<"a", "b", "y">>   \* never in the source state

DestPaths == {DirA, DirAB, FileABC, ExtraAX, ExtraABY}

\* The targets a run may be asked to apply; a source state need not hold
\* them all.
ArgPaths == {DirA, DirAB, FileABC, ScriptS}

Parent(p) == SubSeq(p, 1, Len(p) - 1)

\* q lies strictly below p.
IsAncestor(p, q) == Len(p) < Len(q) /\ SubSeq(q, 1, Len(p)) = p

\* The byte order of the path components in use.
CompOrder == <<"a", "b", "c", "s", "x", "y">>
CompIndex(c) == CHOOSE i \in 1..Len(CompOrder) : CompOrder[i] = c

RECURSIVE LexLess(_, _)
LexLess(p, q) ==
  IF Len(p) = 0 THEN Len(q) > 0
  ELSE IF Len(q) = 0 THEN FALSE
  ELSE IF Head(p) = Head(q) THEN LexLess(Tail(p), Tail(q))
  ELSE CompIndex(Head(p)) < CompIndex(Head(q))

(***************************************************************************)
(* Filesystem nodes of the destination.                                    *)
(***************************************************************************)
Absent      == [kind |-> "absent", data |-> ""]
DirNode     == [kind |-> "dir", data |-> ""]
FileNode(c) == [kind |-> "file", data |-> c]

\* The contents a file may have: those of an older and of a newer version.
FileContents == {"old", "new"}

\* A path can be created when its parent is DestDir itself or a directory.
ParentIsDir(d, p) == Len(p) = 1 \/ d[Parent(p)] = DirNode

DestStates ==
  { d \in [DestPaths -> {Absent, DirNode} \cup {FileNode(c) : c \in FileContents}] :
      /\ d[DirA] \in {Absent, DirNode}
      /\ d[DirAB] \in {Absent, DirNode}
      /\ d[FileABC].kind \in {"absent", "file"}
      /\ d[ExtraAX] \in {Absent, FileNode("old")}
      /\ d[ExtraABY] \in {Absent, FileNode("old")}
      /\ \A p \in DestPaths : d[p] # Absent => ParentIsDir(d, p) }

\* os.RemoveAll: the path and everything below it.
RemoveTree(d, p) ==
  [q \in DestPaths |-> IF q = p \/ IsAncestor(p, q) THEN Absent ELSE d[q]]

(***************************************************************************)
(* Entries of the source / target state.                                   *)
(***************************************************************************)
DirEntry(exact)      == [kind |-> "dir", exact |-> exact, once |-> FALSE, contents |-> ""]
FileEntry(c)         == [kind |-> "file", exact |-> FALSE, once |-> FALSE, contents |-> c]
ScriptEntry(once, c) == [kind |-> "script", exact |-> FALSE, once |-> once, contents |-> c]

NoEntries == [p \in {} |-> DirEntry(FALSE)]

\* The source states in scope: the directory a, optionally a/b and a/b/c
\* below it, optionally the script s.  A file is in the source state only
\* together with the directories that hold it.
EntryMaps ==
  LET as == { DirA :> DirEntry(ex) : ex \in BOOLEAN }
      bs == {NoEntries}
            \cup { DirAB :> DirEntry(FALSE) }
            \cup { (DirAB :> DirEntry(FALSE)) @@ (FileABC :> FileEntry(c)) :
                     c \in FileContents }
      ss == {NoEntries}
            \cup { ScriptS :> ScriptEntry(o, c) : o \in BOOLEAN, c \in Contents }
  IN { a @@ b @@ s : a \in as, b \in bs, s \in ss }


NilTS == [Entries |-> NoEntries, MinVersion |-> NoVersion]

SourceStates(maps, minVersions) ==
  { [Entries |-> m, MinVersion |-> v] : m \in maps, v \in minVersions }

\* Entry order of TargetState.Apply: ascending path depth, lexical within a
\* depth.
PathLess(p, q) == Len(p) < Len(q) \/ (Len(p) = Len(q) /\ LexLess(p, q))

RECURSIVE SortBy(_, _)
SortBy(S, depthFirst) ==
  IF S = {} THEN <<>>
  ELSE LET m == CHOOSE x \in S : \A y \in S \ {x} :
                  IF depthFirst THEN PathLess(x, y) ELSE LexLess(x, y)
       IN <<m>> \o SortBy(S \ {m}, depthFirst)

sortedEntryNames(ts) == SortBy(DOMAIN ts.Entries, TRUE)

(***************************************************************************)
(* Persistent idempotency store: a set of (bucket, key) records.           *)
(***************************************************************************)
scriptStateBucket == "script"

\* The key of a script's contents; distinct contents have distinct keys.
contentHash(c) == <<"sha256", c>>

StoreKey(bucket, c) == [bucket |-> bucket, key |-> contentHash(c)]

\* The stores a first run may find: empty, or holding the record of the
\* script of contents 1.
StoreStates == {{}, {StoreKey(scriptStateBucket, 1)}}

\* PersistentState.Get
StoreGet(st, bucket, c) == StoreKey(bucket, c) \in st

\* PersistentState.Set on a handle: a read-only handle refuses the write.
StoreSet(st, handle, bucket, c) ==
  IF handle.ReadOnly
    THEN [store |-> st, err |-> TRUE]
    ELSE [store |-> st \cup {StoreKey(bucket, c)}, err |-> FALSE]

(***************************************************************************)
(* Permissions (os.FileMode) are sets of the nine permission bits, so that *)
(* 0o700 &^ umask is a set difference.                                     *)
(***************************************************************************)
PermBits == 0..8

OctalDigit(d, shift) == { shift + i : i \in { j \in 0..2 : (d \div (2^j)) % 2 = 1 } }

\* The permissions 0ougo.
Octal(u, g, o) == OctalDigit(u, 6) \cup OctalDigit(g, 3) \cup OctalDigit(o, 0)

\* perm &^ mask
AndNot(perm, mask) == perm \ mask

(***************************************************************************)
(* TARSystem (tar.go): a System that writes to a TAR archive.  The         *)
(* tar.Writer is the entries written so far and its sticky error; an       *)
(* entry is its header and its data.                                       *)
(***************************************************************************)
TypeReg     == "TypeReg"
TypeDir     == "TypeDir"
TypeSymlink == "TypeSymlink"

ErrPermission == "ErrPermission"

\* The header template of a TARSystem: the fields every entry shares.
headerTemplate ==
  [Typeflag |-> TypeReg, Name |-> "", Linkname |-> "", Size |-> 0,
   Mode |-> {}, Uname |-> "user"]

\* NewTARSystem: nothing written.
NewTARSystem == [entries |-> <<>>, err |-> "nil"]

\* tar.Writer.WriteHeader: refused once the writer has failed or is closed;
\* a failure of the underlying writer sticks.
WriteHeader(w, header, fail) ==
  IF w.err # "nil" THEN [w |-> w, err |-> w.err]
  ELSE IF fail THEN [w |-> [w EXCEPT !.err = "io"], err |-> "io"]
  ELSE [w |-> [w EXCEPT !.entries =
                 Append(@, [header |-> header, data |-> <<>>])],
        err |-> "nil"]

\* tar.Writer.Write: the data of the entry whose header was written last.
Write(w, data, fail) ==
  IF w.err # "nil" THEN [w |-> w, err |-> w.err]
  ELSE IF fail THEN [w |-> [w EXCEPT !.err = "io"], err |-> "io"]
  ELSE [w |-> [w EXCEPT !.entries[Len(w.entries)].data = data], err |-> "nil"]

\* tar.Writer.Close
TARClose(w) ==
  IF w.err # "nil" THEN [w |-> w, err |-> w.err]
  ELSE [w |-> [w EXCEPT !.err = "closed"], err |-> "nil"]

TARChmod(w, name, mode) == [w |-> w, err |-> ErrPermission]

TARRemoveAll(w, name) == [w |-> w, err |-> ErrPermission]

TARRename(w, oldpath, newpath) == [w |-> w, err |-> ErrPermission]

\* name + "/"
DirName(name) == name \o "/"

TARMkdir(w, name, perm, fail) ==
  WriteHeader(w, [headerTemplate EXCEPT !.Typeflag = TypeDir,
                                        !.Name = DirName(name),
                                        !.Mode = perm],
              fail = "header")

TARWriteFile(w, filename, data, perm, fail) ==
  LET h == WriteHeader(w, [headerTemplate EXCEPT !.Typeflag = TypeReg,
                                                 !.Name = filename,
                                                 !.Size = Len(data),
                                                 !.Mode = perm],
                       fail = "header")
  IN IF h.err # "nil" THEN h ELSE Write(h.w, data, fail = "data")

TARWriteSymlink(w, oldname, newname, fail) ==
  WriteHeader(w, [headerTemplate EXCEPT !.Typeflag = TypeSymlink,
                                        !.Name = newname,
                                        !.Linkname = oldname],
              fail = "header")

\* A faulty variant: the RunScript of the embedded nullSystem, which does
\* nothing and returns nil.
TARRunScriptNull(w, name, data, fail) == [w |-> w, err |-> "nil"]

\* TARSystem.RunScript: the script is written, not run.
TARRunScript(w, name, data, fail) ==
  TARWriteFile(w, name, data, Octal(7, 0, 0), fail)

(***************************************************************************)
(* cmd/config.go                                                           *)
(***************************************************************************)

\* Template function names: the one newConfig pre-loads (sprig's) and the
\* ones commands register.
sprigKey == 0
FuncKeys == {sprigKey} \cup (1..MaxKeys)

\* Template function values; sprig's is apart from the registered ones.
sprigValue == 0
FuncValues == 1..MaxValue

\* A template.FuncMap: nil, or the keys it holds with their values.
NilFuncMap == [isNil |-> TRUE, keys |-> {}, value |-> [k \in FuncKeys |-> 0]]

\* sprig.TxtFuncMap(), the registry newConfig loads.
TxtFuncMap ==
  [isNil |-> FALSE, keys |-> {sprigKey}, value |-> [k \in FuncKeys |-> sprigValue]]

\* newConfig: the fields of the Config the model follows.
newConfig == [templateFuncs |-> TxtFuncMap]

\* A Config literal that sets no templateFuncs.
zeroConfig == [templateFuncs |-> NilFuncMap]

\* A faulty variant: no test for a key already defined.
addTemplateFuncOverwrite(templateFuncs, key, value) ==
  [templateFuncs |-> [isNil |-> FALSE,
                      keys  |-> templateFuncs.keys \cup {key},
                      value |-> [templateFuncs.value EXCEPT ![key] = value]],
   panicked |-> FALSE]

\* Config.addTemplateFunc: the registry after the call and whether the call
\* panicked.  A nil registry is made first; a key already defined panics
\* before the assignment.
addTemplateFunc(templateFuncs, key, value) ==
  LET made == IF templateFuncs.isNil
                THEN [templateFuncs EXCEPT !.isNil = FALSE]
                ELSE templateFuncs
  IN IF key \in made.keys
       THEN [templateFuncs |-> made, panicked |-> TRUE]
       ELSE [templateFuncs |-> [made EXCEPT !.keys = @ \cup {key},
                                            !.value[key] = value],
             panicked |-> FALSE]

(***************************************************************************)
(* Config.ensureSourceDirectory.                                           *)
(***************************************************************************)
\* c.SourceDir and the directories above it, below a root that exists.
SourceDir == <<"l", "s", "c">>
SourcePaths == {<<"l">>, <<"l", "s">>, SourceDir}

\* filepath.Dir
Dir(p) == SubSeq(p, 1, Len(p) - 1)

NoNode == [kind |-> "absent", mode |-> {}]
DirMode(mode) == [kind |-> "dir", mode |-> mode]
FileMode(mode) == [kind |-> "file", mode |-> mode]

\* The node at p; the root is a directory.
NodeAt(fs, p) == IF p = <<>> THEN DirMode(Octal(7, 5, 5)) ELSE fs[p]

\* fs.Stat(p): ENOENT when p or a directory above it is missing, ENOTDIR
\* when something above it is not a directory.
Stat(fs, p) ==
  LET above == { SubSeq(p, 1, i) : i \in 0..(Len(p) - 1) }
  IN IF \E a \in above : NodeAt(fs, a).kind = "file"
       THEN [err |-> "ENOTDIR", node |-> NoNode]
     ELSE IF \E a \in above \cup {p} : NodeAt(fs, a).kind = "absent"
       THEN [err |-> "ENOENT", node |-> NoNode]
     ELSE [err |-> "nil", node |-> NodeAt(fs, p)]

\* chezmoi.IsPrivate: no permission for group or others.
IsPrivate(node) == node.mode \cap Octal(0, 7, 7) = {}

\* The state of one call: the filesystem, the calls made on c.mutator so
\* far, the error in hand.
Run(fs, calls, e) == [fs |-> fs, calls |-> calls, err |-> e]

Call(op, p, perm) == [op |-> op, path |-> p, perm |-> perm]

\* The system refuses the call about to be made on the real mutator.
Refused(r, m, failAt) == m = "fs" /\ failAt = Len(r.calls) + 1

\* c.mutator.Mkdir(p, perm): the null mutator returns nil and does nothing;
\* the real one makes the directory with perm less the process umask.
MutatorMkdir(r, m, p, perm, umask, failAt) ==
  LET calls == Append(r.calls, Call("Mkdir", p, perm))
      st    == Stat(r.fs, p)
  IN IF m = "null" THEN Run(r.fs, calls, "nil")
     ELSE IF Refused(r, m, failAt) THEN Run(r.fs, calls, "EACCES")
     ELSE IF st.err = "nil" THEN Run(r.fs, calls, "EEXIST")
     ELSE IF st.err = "ENOTDIR" THEN Run(r.fs, calls, "ENOTDIR")
     ELSE IF Stat(r.fs, Dir(p)).err # "nil" THEN Run(r.fs, calls, "ENOENT")
     ELSE Run([r.fs EXCEPT ![p] = DirMode(AndNot(perm, umask))], calls, "nil")

\* c.mutator.Chmod(p, perm)
MutatorChmod(r, m, p, perm, failAt) ==
  LET calls == Append(r.calls, Call("Chmod", p, perm))
  IN IF m = "null" THEN Run(r.fs, calls, "nil")
     ELSE IF Refused(r, m, failAt) THEN Run(r.fs, calls, "EACCES")
     ELSE IF Stat(r.fs, p).err # "nil" THEN Run(r.fs, calls, Stat(r.fs, p).err)
     ELSE Run([r.fs EXCEPT ![p].mode = perm], calls, "nil")

\* vfs.MkdirAll(c.mutator, p, perm): Mkdir first; when p exists, nil if it
\* is a directory; when a directory above is missing, that one first.
RECURSIVE MkdirAll(_, _, _, _, _, _)
MkdirAll(r, m, p, perm, umask, failAt) ==
  LET first == MutatorMkdir(r, m, p, perm, umask, failAt)
  IN IF first.err = "nil" THEN first
     ELSE IF first.err = "EEXIST"
       THEN IF Stat(first.fs, p).err # "nil"
              THEN Run(first.fs, first.calls, Stat(first.fs, p).err)
            ELSE IF Stat(first.fs, p).node.kind # "dir" THEN first
            ELSE Run(first.fs, first.calls, "nil")
     ELSE IF first.err = "ENOENT"
       THEN IF Dir(p) = <<>> THEN first
            ELSE LET above == MkdirAll(first, m, Dir(p), perm, umask, failAt)
                 IN IF above.err # "nil" THEN above
                    ELSE MutatorMkdir(above, m, p, perm, umask, failAt)
     ELSE first

\* A faulty variant: the source directory made with 0o777.
ensureSourceDirectoryPublic(fs, m, umask, failAt, privErr) ==
  LET st == Stat(fs, SourceDir)
      r0 == Run(fs, <<>>, "nil")
  IN IF st.err = "nil" /\ st.node.kind = "dir"
       THEN IF privErr THEN Run(fs, <<>>, "EACCES")
            ELSE IF ~IsPrivate(st.node)
              THEN MutatorChmod(r0, m, SourceDir, AndNot(Octal(7, 0, 0), umask),
                                failAt)
            ELSE r0
     ELSE IF st.err = "ENOENT"
       THEN LET parents == MkdirAll(r0, m, Dir(SourceDir),
                                    AndNot(Octal(7, 7, 7), umask), umask, failAt)
            IN IF parents.err # "nil" THEN parents
               ELSE MutatorMkdir(parents, m, SourceDir,
                                 AndNot(Octal(7, 7, 7), umask), umask, failAt)
     ELSE IF st.err = "nil" THEN Run(fs, <<>>, "notADirectory")
     ELSE Run(fs, <<>>, st.err)

\* Config.ensureSourceDirectory on the filesystem fs with the mutator m.
\* privErr: chezmoi.IsPrivate returns an error.
ensureSourceDirectory(fs, m, umask, failAt, privErr) ==
  LET st == Stat(fs, SourceDir)
      r0 == Run(fs, <<>>, "nil")
  IN IF st.err = "nil" /\ st.node.kind = "dir"
       THEN IF privErr THEN Run(fs, <<>>, "EACCES")
            ELSE IF ~IsPrivate(st.node)
              THEN MutatorChmod(r0, m, SourceDir, AndNot(Octal(7, 0, 0), umask),
                                failAt)
            ELSE r0
     ELSE IF st.err = "ENOENT"
       THEN LET parents == MkdirAll(r0, m, Dir(SourceDir),
                                    AndNot(Octal(7, 7, 7), umask), umask, failAt)
            IN IF parents.err # "nil" THEN parents
               ELSE MutatorMkdir(parents, m, SourceDir,
                                 AndNot(Octal(7, 0, 0), umask), umask, failAt)
     ELSE IF st.err = "nil" THEN Run(fs, <<>>, "notADirectory")
     ELSE Run(fs, <<>>, st.err)

\* Faulty variants of getPersistentState: ReadOnly never set; the test of
\* c.DryRun inverted.
getPersistentStateWritable(DryRun) == [ReadOnly |-> FALSE]

getPersistentStateInverted(DryRun) == [ReadOnly |-> ~DryRun]

\* Config.getPersistentState: the handle is read-only exactly in a dry run.
getPersistentState(DryRun) == [ReadOnly |-> DryRun]

\* The mutator a Config carries: in a dry run every mutating call is a
\* no-op that returns success.
ConfigMutator(DryRun) == IF DryRun THEN "null" ELSE "fs"

\* A faulty variant: a read-only view of a fresh, empty filesystem instead
\* of c.fs.
NewEmptyFS(d) == [p \in DestPaths |-> Absent]

\* vfs.NewReadOnlyFS(c.fs): the same tree, for reading.
NewReadOnlyFS(d) == d

\* c.fs, the real filesystem: a handle that can mutate.
RealFS == [fs |-> "c.fs", ReadOnly |-> FALSE]

\* vfs.NewReadOnlyFS(fs) as a handle: the same filesystem, every mutating
\* call refused.
NewReadOnlyFSHandle(fs) == [fs EXCEPT !.ReadOnly = TRUE]

\* A filesystem handle handed to a reader of the destination.
Handed(to, fs) == [to |-> to, fs |-> fs]

\* Config.getTargetState hands its handle to TargetState.Populate, unless
\* getData failed before.
getTargetStateHandles(early) ==
  IF early = "getData" THEN {}
  ELSE {Handed("Populate", NewReadOnlyFSHandle(RealFS))}

\* Config.getEntries hands c.fs to TargetState.Get, once per argument it
\* looks up.
getEntriesHandles(args) ==
  IF args = <<>> THEN {} ELSE {Handed("Get", RealFS)}

\* A faulty variant: the comparison of the version gate reversed.
getTargetStateReversed(src, Version, early) ==
  IF early # "nil" THEN [err |-> early, ts |-> NilTS]
  ELSE IF /\ Version # NoVersion
          /\ src.MinVersion # NoVersion
          /\ src.MinVersion < Version
    THEN [err |-> "version", ts |-> NilTS]
  ELSE [err |-> "nil", ts |-> src]

\* Config.getTargetState: getData, Populate, then the version gate.
\* early is the failure, if any, of getData or TargetState.Populate.
getTargetState(src, Version, early) ==
  IF early # "nil" THEN [err |-> early, ts |-> NilTS]
  ELSE IF /\ Version # NoVersion
          /\ src.MinVersion # NoVersion
          /\ Version < src.MinVersion
    THEN [err |-> "version", ts |-> NilTS]
  ELSE [err |-> "nil", ts |-> src]

\* Config.getEntries: the entries in argument order, or the first lookup
\* that fails.
RECURSIVE getEntries(_, _)
getEntries(ts, args) ==
  IF args = <<>> THEN [err |-> "nil", entries |-> <<>>]
  ELSE IF Head(args) \notin DOMAIN ts.Entries
    THEN [err |-> "notInSourceState", entries |-> <<>>]
  ELSE LET rest == getEntries(ts, Tail(args))
       IN IF rest.err # "nil" THEN rest
          ELSE [err |-> "nil", entries |-> <<Head(args)>> \o rest.entries]

\* A faulty variant: Remove set whatever c.Remove says.
ApplyOptionsRemoveSet(c, persistentState) ==
  [ DryRun            |-> c.DryRun,
    PersistentState   |-> persistentState,
    Remove            |-> TRUE,
    ScriptStateBucket |-> scriptStateBucket ]

\* The chezmoi.ApplyOptions that Config.applyArgs builds from the Config c.
ApplyOptions(c, persistentState) ==
  [ DryRun            |-> c.DryRun,
    PersistentState   |-> persistentState,
    Remove            |-> c.Remove,
    ScriptStateBucket |-> scriptStateBucket ]


(***************************************************************************)
(* The entry model (specification 4.3) and the mutator (4.5).              *)
(*                                                                         *)
(* An Apply result: the destination and the store after it, whether it     *)
(* returned an error, the mutating calls it issued to the real system, the *)
(* store writes it attempted and those that were refused, and whether it   *)
(* really executed a script to success.                                    *)
(***************************************************************************)
Result(d, st, e, n) ==
  [dest |-> d, store |-> st, err |-> e, calls |-> n,
   sets |-> 0, setErrs |-> 0, ran |-> FALSE]

\* The k-th mutating call of one Apply, through the mutator m: the null
\* mutator returns success and touches nothing; the real one fails when the
\* system refuses the call (failAt = k).
CallIssued(m) == m = "fs"
CallOK(m, k, failAt) == m = "null" \/ k # failAt

\* Dir: ensure the directory exists.
DirApply(fs, d, st, p, m, failAt) ==
  IF fs[p] = DirNode THEN Result(d, st, FALSE, 0)
  ELSE IF ~CallIssued(m) THEN Result(d, st, FALSE, 0)
  ELSE IF CallOK(m, 1, failAt) /\ ParentIsDir(d, p) /\ d[p] = Absent
    THEN Result([d EXCEPT ![p] = DirNode], st, FALSE, 1)
  ELSE Result(d, st, TRUE, 1)

\* The children of directory p present in the destination and absent from
\* the target state, in directory order.
ExtraChildren(fs, ts, p) ==
  SortBy({ c \in DestPaths : /\ Parent(c) = p
                             /\ fs[c] # Absent
                             /\ c \notin DOMAIN ts.Entries }, FALSE)

RECURSIVE RemoveEach(_, _, _, _, _, _)
RemoveEach(d, st, cs, m, k, failAt) ==
  IF cs = <<>> THEN Result(d, st, FALSE, k - 1)
  ELSE IF ~CallIssued(m) THEN Result(d, st, FALSE, 0)
  ELSE IF CallOK(m, k, failAt)
    THEN RemoveEach(RemoveTree(d, Head(cs)), st, Tail(cs), m, k + 1, failAt)
  ELSE Result(d, st, TRUE, k)

\* Dir, Exact: remove the children that the target state does not hold,
\* when the Remove option allows it.
ExactApply(fs, d, st, ts, p, m, o, failAt) ==
  IF ~o.Remove THEN Result(d, st, FALSE, 0)
  ELSE RemoveEach(d, st, ExtraChildren(fs, ts, p), m, 1, failAt)

\* File: write only when the contents differ.
FileApply(fs, d, st, p, e, m, failAt) ==
  IF fs[p] = FileNode(e.contents) THEN Result(d, st, FALSE, 0)
  ELSE IF ~CallIssued(m) THEN Result(d, st, FALSE, 0)
  ELSE IF CallOK(m, 1, failAt) /\ ParentIsDir(d, p)
    THEN Result([d EXCEPT ![p] = FileNode(e.contents)], st, FALSE, 1)
  ELSE Result(d, st, TRUE, 1)

\* Script: a Once script whose hash is recorded is skipped; any other
\* script is executed, and a Once script's hash is recorded on success.
ScriptApply(d, st, e, m, o, failAt) ==
  IF e.once /\ StoreGet(st, o.ScriptStateBucket, e.contents)
    THEN Result(d, st, FALSE, 0)
  ELSE LET n   == IF CallIssued(m) THEN 1 ELSE 0
           ok  == CallOK(m, 1, failAt)
           set == StoreSet(st, o.PersistentState, o.ScriptStateBucket, e.contents)
       IN IF ~ok THEN Result(d, st, TRUE, n)
          ELSE IF ~e.once
            THEN [Result(d, st, FALSE, n) EXCEPT !.ran = CallIssued(m)]
          ELSE [dest |-> d, store |-> set.store, err |-> set.err, calls |-> n,
                sets |-> 1, setErrs |-> IF set.err THEN 1 ELSE 0,
                ran |-> CallIssued(m)]

\* A unit of work of a run: an entry's Apply, or the Exact pass of a
\* directory entry.
Item(op, p) == [op |-> op, path |-> p]

ItemApply(item, fs, d, st, ts, m, o, failAt) ==
  LET p == item.path
      e == ts.Entries[p]
  IN IF item.op = "exact" THEN ExactApply(fs, d, st, ts, p, m, o, failAt)
     ELSE IF e.kind = "dir" THEN DirApply(fs, d, st, p, m, failAt)
     ELSE IF e.kind = "file" THEN FileApply(fs, d, st, p, e, m, failAt)
     ELSE ScriptApply(d, st, e, m, o, failAt)

RECURSIVE ApplyItems(_)
ApplyItems(ps) ==
  IF ps = <<>> THEN <<>> ELSE <<Item("apply", Head(ps))>> \o ApplyItems(Tail(ps))

RECURSIVE ExactItems(_, _)
ExactItems(ts, ps) ==
  IF ps = <<>> THEN <<>>
  ELSE (IF ts.Entries[Head(ps)].kind = "dir" /\ ts.Entries[Head(ps)].exact
          THEN <<Item("exact", Head(ps))>> ELSE <<>>)
       \o ExactItems(ts, Tail(ps))

\* TargetState.Apply: every entry parent before child, then, all
\* descendants applied, the Exact pass of each Exact directory.
TargetStateItems(ts) ==
  ApplyItems(sortedEntryNames(ts)) \o ExactItems(ts, sortedEntryNames(ts))

\* TargetState.Apply after one item: a failure is reported and the pass
\* goes on with the next item; the pass returns an error when any failed.
TargetStateApplyStep(q, e, stepFailed) ==
  [queue |-> Tail(q), err |-> IF stepFailed THEN "apply" ELSE e]

\* Entry.Apply of the named entries, in argument order: the entry, then its
\* Exact pass.
RECURSIVE EntryItems(_, _)
EntryItems(ts, ps) ==
  IF ps = <<>> THEN <<>>
  ELSE <<Item("apply", Head(ps))>> \o ExactItems(ts, <<Head(ps)>>)
       \o EntryItems(ts, Tail(ps))

(***************************************************************************)
(* Config.applyArgs                                                        *)
(***************************************************************************)

\* The work applyArgs sets out to do, or the error it returns at once.
applyArgsPlan(src, Version, early, args) ==
  LET t == getTargetState(src, Version, early)
      g == getEntries(t.ts, args)
  IN IF t.err # "nil" THEN [err |-> t.err, ts |-> t.ts, queue |-> <<>>]
     ELSE IF Len(args) = 0
       THEN [err |-> "nil", ts |-> t.ts, queue |-> TargetStateItems(t.ts)]
     ELSE IF g.err # "nil" THEN [err |-> g.err, ts |-> t.ts, queue |-> <<>>]
     ELSE [err |-> "nil", ts |-> t.ts, queue |-> EntryItems(t.ts, g.entries)]

\* The filesystem handles applyArgs and the functions it calls hand out: to
\* Populate; then, with arguments, to Get and, when every argument was
\* found, to Entry.Apply; with no arguments, to TargetState.Apply.
applyArgsHandles(src, Version, early, args) ==
  LET plan == applyArgsPlan(src, Version, early, args)
      t    == getTargetState(src, Version, early)
  IN getTargetStateHandles(early)
     \cup (IF t.err # "nil" THEN {} ELSE getEntriesHandles(args))
     \cup (IF plan.queue = <<>> THEN {}
           ELSE {Handed("Apply", NewReadOnlyFSHandle(RealFS))})

\* Faulty variants: the loop over the named entries goes on after a failing
\* Apply; the pass over the whole target state stops at the first failure.
applyArgsStepContinue(args, q, e, stepFailed) ==
  [queue |-> Tail(q), err |-> IF stepFailed THEN "apply" ELSE e]

applyArgsStepAbort(args, q, e, stepFailed) ==
  IF stepFailed THEN [queue |-> <<>>, err |-> "apply"]
  ELSE [queue |-> Tail(q), err |-> e]

\* After one item: with no arguments the pass is TargetState.Apply's and
\* its error is returned; with arguments the first failing Apply is
\* returned at once.
applyArgsStep(args, q, e, stepFailed) ==
  IF Len(args) = 0 THEN TargetStateApplyStep(q, e, stepFailed)
  ELSE IF stepFailed THEN [queue |-> <<>>, err |-> "apply"]
  ELSE [queue |-> Tail(q), err |-> e]


(***************************************************************************)
(* The attribute codec (specification 4.1 and 6; exercised by              *)
(* TestDirAttributes and TestFileAttributes).                              *)
(*                                                                         *)
(* A name is a sequence of atoms: the markers of the source naming         *)
(* convention, the literal dot, "tmpl" and a plain word.  No atom is a     *)
(* prefix of another, so a name begins with a marker exactly when its      *)
(* first atom is that marker, and ends in ".tmpl" exactly when its last    *)
(* two atoms are the dot and "tmpl".                                       *)
(***************************************************************************)
exactPrefix      == "exact_"
privatePrefix    == "private_"
dotPrefix        == "dot_"
runPrefix        == "run_"
oncePrefix       == "once_"
symlinkPrefix    == "symlink_"
encryptedPrefix  == "encrypted_"
emptyPrefix      == "empty_"
executablePrefix == "executable_"
TemplateSuffix   == <<".", "tmpl">>

Markers == {exactPrefix, privatePrefix, dotPrefix, runPrefix, oncePrefix,
            symlinkPrefix, encryptedPrefix, emptyPrefix, executablePrefix}

Atoms == Markers \cup {".", "tmpl", "name"}

\* strings.HasPrefix, strings.TrimPrefix, strings.HasSuffix,
\* strings.TrimSuffix on names.
HasPrefix(n, a) == Len(n) > 0 /\ Head(n) = a
TrimPrefix(n, a) == IF HasPrefix(n, a) THEN Tail(n) ELSE n
HasSuffix(n, suffix) ==
  /\ Len(n) >= Len(suffix)
  /\ SubSeq(n, Len(n) - Len(suffix) + 1, Len(n)) = suffix
TrimSuffix(n, suffix) ==
  IF HasSuffix(n, suffix) THEN SubSeq(n, 1, Len(n) - Len(suffix)) ELSE n

\* A marker emitted when its flag is set.
Flag(b, marker) == IF b THEN <<marker>> ELSE <<>>

\* A target name in source form: a leading dot becomes the dot marker.
DotName(n) == IF HasPrefix(n, ".") THEN <<dotPrefix>> \o Tail(n) ELSE n

\* A faulty variant: the dot marker is left in the name.
UndotNameKeepsMarker(n) == n

\* The inverse: the dot marker becomes a leading dot.
UndotName(n) == IF HasPrefix(n, dotPrefix) THEN <<".">> \o Tail(n) ELSE n

DirAttributes(name, exact, private) ==
  [Name |-> name, Exact |-> exact, Private |-> private]

\* A faulty variant: the markers emitted in the other order.
DirAttributesSourceNameSwapped(da) ==
  Flag(da.Private, privatePrefix) \o Flag(da.Exact, exactPrefix) \o DotName(da.Name)

\* DirAttributes.SourceName: exact, private, then the name.
DirAttributesSourceName(da) ==
  Flag(da.Exact, exactPrefix) \o Flag(da.Private, privatePrefix) \o DotName(da.Name)

\* ParseDirAttributes: strips exact, then private, then restores the dot.
ParseDirAttributes(sourceName) ==
  LET exact   == HasPrefix(sourceName, exactPrefix)
      n1      == TrimPrefix(sourceName, exactPrefix)
      private == HasPrefix(n1, privatePrefix)
      n2      == TrimPrefix(n1, privatePrefix)
  IN DirAttributes(UndotName(n2), exact, private)

SourceFileTypeFile    == "file"
SourceFileTypeScript  == "script"
SourceFileTypeSymlink == "symlink"

FileAttributes(type, name, empty, encrypted, executable, private, template, once) ==
  [Type |-> type, Name |-> name, Empty |-> empty, Encrypted |-> encrypted,
   Executable |-> executable, Private |-> private, Template |-> template,
   Once |-> once]

\* FileAttributes.SourceName: the markers of the type in their fixed order,
\* the name, the template suffix.
FileAttributesSourceName(fa) ==
  (CASE fa.Type = SourceFileTypeScript ->
          <<runPrefix>> \o Flag(fa.Once, oncePrefix)
     [] fa.Type = SourceFileTypeSymlink ->
          <<symlinkPrefix>>
     [] OTHER ->
          Flag(fa.Encrypted, encryptedPrefix) \o Flag(fa.Private, privatePrefix)
          \o Flag(fa.Empty, emptyPrefix) \o Flag(fa.Executable, executablePrefix))
  \o DotName(fa.Name)
  \o (IF fa.Template THEN TemplateSuffix ELSE <<>>)

\* The end of ParseFileAttributes: the dot is restored first, then the
\* template suffix is taken off what results.
ParseFileRest(type, rest, empty, encrypted, executable, private, once) ==
  LET n == UndotName(rest)
  IN FileAttributes(type, TrimSuffix(n, TemplateSuffix), empty, encrypted,
                    executable, private, HasSuffix(n, TemplateSuffix), once)

\* ParseFileAttributes: the type by its leading marker, the markers of the
\* type in their fixed order, the dot, the template suffix.
ParseFileAttributes(sourceName) ==
  IF HasPrefix(sourceName, runPrefix)
    THEN LET n1 == TrimPrefix(sourceName, runPrefix)
         IN ParseFileRest(SourceFileTypeScript, TrimPrefix(n1, oncePrefix),
                          FALSE, FALSE, FALSE, FALSE, HasPrefix(n1, oncePrefix))
  ELSE IF HasPrefix(sourceName, symlinkPrefix)
    THEN ParseFileRest(SourceFileTypeSymlink, TrimPrefix(sourceName, symlinkPrefix),
                       FALSE, FALSE, FALSE, FALSE, FALSE)
  ELSE LET encrypted  == HasPrefix(sourceName, encryptedPrefix)
           n1         == TrimPrefix(sourceName, encryptedPrefix)
           private    == HasPrefix(n1, privatePrefix)
           n2         == TrimPrefix(n1, privatePrefix)
           empty      == HasPrefix(n2, emptyPrefix)
           n3         == TrimPrefix(n2, emptyPrefix)
           executable == HasPrefix(n3, executablePrefix)
           n4         == TrimPrefix(n3, executablePrefix)
       IN ParseFileRest(SourceFileTypeFile, n4, empty, encrypted, executable,
                        private, FALSE)

(***************************************************************************)
(* State.                                                                  *)
(***************************************************************************)
VARIABLES
  source,      \* the source state on disk: Entries, MinVersion
  version,     \* the running program's Version (NoVersion: nil)
  dest,        \* the destination filesystem
  store,       \* the idempotency store
  pc,          \* "idle", "applying" (inside applyArgs), "done" (it returned)
  config,      \* the Config's DryRun and Remove
  args,        \* the arguments of the current or last applyArgs
  opts,        \* its ApplyOptions
  mutator,     \* c.mutator
  ts,          \* the target state it built
  queue,       \* the items it has still to apply
  log,         \* the entries whose Apply it has called, in call order
  failed,      \* the entries whose Apply returned an error
  err,         \* the error it returns ("nil": none)
  calls,       \* mutating calls issued to the real system in this run
  sets,        \* store writes attempted in this run
  setErrs,     \* store writes refused in this run
  dest0,       \* the destination when the run began
  store0,      \* the store when the run began
  succ,        \* per script contents, its executions to success so far
  runs,        \* apply runs begun
  secondPass,  \* this run repeats the run before it, which returned nil
  handed,      \* the filesystem handles this run has handed to readers
  templateFuncs, \* c.templateFuncs
  lastAdd,     \* the last addTemplateFunc call: key, value, panicked
  srcfs,       \* the filesystem at and above c.SourceDir
  umask,       \* c.Umask, the process umask
  ensure,      \* the calls of ensureSourceDirectory: the last one's outcome
  tar,         \* a TARSystem's writer: the entries written, its error
  lastOp,      \* the last operation on the TARSystem and what it returned
  codec        \* one round trip through the attribute codec

vars == <<source, version, dest, store, pc, config, args, opts, mutator, ts, queue,
          log, failed, err, calls, sets, setErrs, dest0, store0, succ, runs,
          secondPass, handed, templateFuncs, lastAdd, srcfs, umask, ensure,
          tar, lastOp, codec>>

\* The state of the Config outside an apply run.
funcVars == <<templateFuncs, lastAdd>>
sourceDirVars == <<srcfs, umask, ensure>>
archiveVars == <<tar, lastOp>>
configVars == <<funcVars, sourceDirVars, archiveVars>>

\* Everything but the codec's round trip.
applyVars == <<source, version, dest, store, pc, config, args, opts, mutator, ts,
               queue, log, failed, err, calls, sets, setErrs, dest0, store0, succ,
               runs, secondPass, handed>>

\* No addTemplateFunc call made.
NoAdd == [called |-> FALSE, key |-> sprigKey, value |-> sprigValue,
          panicked |-> FALSE]

\* No operation on the TARSystem yet.
NoOp ==
  [n |-> 0, op |-> "none", name |-> "", oldname |-> "", data |-> <<>>,
   perm |-> {}, err |-> "nil"]

\* The arguments of the operations on a TARSystem.
TARNames == {"a", "b"}
TARData == {<<>>, <<1>>}
TARPerms == {Octal(7, 5, 5), Octal(6, 4, 4)}

\* Where the underlying writer fails during an operation, if it does.
TARFails == {"none", "header", "data"}

\* No ensureSourceDirectory call made on the filesystem fs.
NoEnsure(fs) ==
  [n |-> 0, err |-> "nil", calls |-> <<>>, fs0 |-> fs, mutator |-> "fs",
   prevErr |-> "none", prevMutator |-> "fs"]

\* The states of a path, and the filesystems in which a path exists only
\* in a directory.
NodeStates ==
  {NoNode, FileMode(Octal(6, 4, 4)), DirMode(Octal(7, 0, 0)),
   DirMode(Octal(7, 5, 5))}

SourceTrees ==
  { f \in [SourcePaths -> NodeStates] :
      \A p \in SourcePaths :
        f[p].kind # "absent" => NodeAt(f, Dir(p)).kind = "dir" }

Umasks == {Octal(0, 0, 0), Octal(0, 2, 2), Octal(0, 7, 7)}

\* Which call on the mutator the system refuses (0: none).
EnsureFailPoints == 0..4

\* No round trip begun.
CodecIdle ==
  [pc |-> "idle", kind |-> "none", from |-> "none", attrs |-> <<>>,
   sourceName |-> <<>>, parsed |-> <<>>, reencoded |-> <<>>]

\* Which mutating call of one Apply the system refuses (0: none).
FailPoints == {0, 1, 2}

RECURSIVE SeqsUpTo(_, _)
SeqsUpTo(S, n) ==
  IF n = 0 THEN {<<>>}
  ELSE LET shorter == SeqsUpTo(S, n - 1)
       IN shorter \cup { Append(q, x) : q \in shorter, x \in S }

ArgLists == SeqsUpTo(ArgPaths, MaxArgs)

InitApplyVars(sources, versions, dests, stores) ==
  /\ source \in sources
  /\ version \in versions
  /\ dest \in dests
  /\ store \in stores
  /\ pc = "idle"
  /\ config = [DryRun |-> FALSE, Remove |-> FALSE]
  /\ args = <<>>
  /\ opts = ApplyOptions(config, getPersistentState(FALSE))
  /\ mutator = ConfigMutator(FALSE)
  /\ ts = NilTS
  /\ queue = <<>>
  /\ log = <<>>
  /\ failed = {}
  /\ err = "nil"
  /\ calls = 0
  /\ sets = 0
  /\ setErrs = 0
  /\ dest0 = dest
  /\ store0 = store
  /\ succ = [c \in Contents |-> 0]
  /\ runs = 0
  /\ secondPass = FALSE
  /\ handed = {}

\* A Config made by newConfig, nothing registered yet.
InitConfigVars ==
  /\ templateFuncs = newConfig.templateFuncs
  /\ lastAdd = NoAdd
  /\ srcfs = [p \in SourcePaths |-> NoNode]
  /\ umask = Octal(0, 2, 2)
  /\ ensure = NoEnsure(srcfs)
  /\ tar = NewTARSystem
  /\ lastOp = NoOp

InitWith(sources, versions, dests, stores) ==
  /\ InitApplyVars(sources, versions, dests, stores)
  /\ InitConfigVars
  /\ codec = CodecIdle

\* One call of applyArgs, with any arguments and options, on any source
\* state that declares no MinVersion.
Init ==
  InitWith(SourceStates(EntryMaps, {NoVersion}), {NoVersion}, DestStates,
           StoreStates)

\* Config.applyArgs is called: persistent state, target state, options,
\* entries.
StartApply(DryRun, Remove, as, early) ==
  /\ pc \in {"idle", "done"}
  /\ LET plan == applyArgsPlan(source, version, early, as)
     IN /\ ts' = plan.ts
        /\ queue' = plan.queue
        /\ err' = plan.err
        /\ pc' = IF plan.queue = <<>> THEN "done" ELSE "applying"
  /\ config' = [DryRun |-> DryRun, Remove |-> Remove]
  /\ args' = as
  /\ opts' = ApplyOptions(config', getPersistentState(DryRun))
  /\ mutator' = ConfigMutator(DryRun)
  /\ log' = <<>>
  /\ failed' = {}
  /\ calls' = 0
  /\ sets' = 0
  /\ setErrs' = 0
  /\ dest0' = dest
  /\ store0' = store
  /\ runs' = runs + 1
  /\ secondPass' = /\ pc = "done" /\ err = "nil" /\ ts = source
                   /\ args = <<>> /\ as = <<>>
                   /\ ~config.DryRun /\ ~DryRun
                   /\ config.Remove = Remove
                   /\ early = "nil"
  /\ handed' = applyArgsHandles(source, version, early, as)
  /\ UNCHANGED <<source, version, dest, store, succ, codec, configVars>>

\* applyArgs applies the next item.
ApplyStep ==
  /\ pc = "applying"
  /\ \E failAt \in FailPoints :
       LET item == Head(queue)
           r    == ItemApply(item, NewReadOnlyFS(dest), dest, store, ts,
                             mutator, opts, failAt)
           nx   == applyArgsStep(args, queue, err, r.err)
       IN /\ dest' = r.dest
          /\ store' = r.store
          /\ calls' = calls + r.calls
          /\ sets' = sets + r.sets
          /\ setErrs' = setErrs + r.setErrs
          /\ log' = IF item.op = "apply" THEN Append(log, item.path) ELSE log
          /\ failed' = IF r.err THEN failed \cup {item.path} ELSE failed
          /\ queue' = nx.queue
          /\ err' = nx.err
          /\ pc' = IF nx.queue = <<>> THEN "done" ELSE "applying"
          /\ succ' = IF r.ran
                       THEN [succ EXCEPT ![ts.Entries[item.path].contents] = @ + 1]
                       ELSE succ
  /\ UNCHANGED <<source, version, config, args, opts, mutator, ts, dest0,
                 store0, runs, secondPass, handed, codec, configVars>>

\* Between runs the user changes the script's contents in the source state.
EditSource ==
  /\ pc \in {"idle", "done"}
  /\ ScriptS \in DOMAIN source.Entries
  /\ \E c \in Contents \ {source.Entries[ScriptS].contents} :
       source' = [source EXCEPT !.Entries[ScriptS].contents = c]
  /\ UNCHANGED <<version, dest, store, pc, config, args, opts, mutator, ts, queue,
                 log, failed, err, calls, sets, setErrs, dest0, store0, succ,
                 runs, secondPass, handed, codec, configVars>>

Next ==
  \/ \E DryRun \in BOOLEAN, Remove \in BOOLEAN, as \in ArgLists :
       runs = 0 /\ StartApply(DryRun, Remove, as, "nil")
  \/ ApplyStep

Spec == Init /\ [][Next]_vars

\* Successive live apply runs over the whole target state, the script
\* edited in between.
NextRuns ==
  \/ \E Remove \in BOOLEAN :
       runs < MaxRuns /\ StartApply(FALSE, Remove, <<>>, "nil")
  \/ ApplyStep
  \/ EditSource

SpecRuns == Init /\ [][NextRuns]_vars

\* One call of applyArgs on source states that may declare a MinVersion,
\* by programs of every version, getData and Populate failing or not.
GateMaps ==
  { m \in EntryMaps : ScriptS \notin DOMAIN m /\ ~m[DirA].exact }

InitGate ==
  InitWith(SourceStates(GateMaps, {NoVersion} \cup Versions),
           {NoVersion} \cup Versions, DestStates, {{}})

NextGate ==
  \/ \E DryRun \in BOOLEAN, as \in ArgLists,
        early \in {"nil", "getData", "populate"} :
       runs = 0 /\ StartApply(DryRun, FALSE, as, early)
  \/ ApplyStep

SpecGate == InitGate /\ [][NextGate]_vars

(***************************************************************************)
(* Round trips through the attribute codec.                                *)
(***************************************************************************)
\* Target names and source names, by length in atoms.
Names == SeqsUpTo(Atoms, MaxNameLen) \ {<<>>}
SourceNames == SeqsUpTo(Atoms, MaxNameLen + 1) \ {<<>>}

\* Every directory record.
AllDirAttributes ==
  { DirAttributes(n, exact, private) :
      n \in Names, exact \in BOOLEAN, private \in BOOLEAN }

\* Every file record, with the flags its kind encodes.
AllFileAttributes ==
  { FileAttributes(SourceFileTypeFile, n, empty, encrypted, executable, private,
                   template, FALSE) :
      n \in Names, empty \in BOOLEAN, encrypted \in BOOLEAN,
      executable \in BOOLEAN, private \in BOOLEAN, template \in BOOLEAN }
  \cup
  { FileAttributes(SourceFileTypeScript, n, FALSE, FALSE, FALSE, FALSE, template,
                   once) :
      n \in Names, template \in BOOLEAN, once \in BOOLEAN }
  \cup
  { FileAttributes(SourceFileTypeSymlink, n, FALSE, FALSE, FALSE, FALSE, template,
                   FALSE) :
      n \in Names, template \in BOOLEAN }

Parse(kind, sourceName) ==
  IF kind = "dir" THEN ParseDirAttributes(sourceName)
  ELSE ParseFileAttributes(sourceName)

SourceName(kind, a) ==
  IF kind = "dir" THEN DirAttributesSourceName(a)
  ELSE FileAttributesSourceName(a)

\* The loop body of TestDirAttributes begins: da.SourceName().
TestDirAttributes(da) ==
  /\ codec.pc = "idle"
  /\ codec' = [CodecIdle EXCEPT !.pc = "encoded", !.kind = "dir",
                                !.from = "record", !.attrs = da,
                                !.sourceName = DirAttributesSourceName(da)]
  /\ UNCHANGED <<applyVars, configVars>>

\* The loop body of TestFileAttributes begins: fa.SourceName().
TestFileAttributes(fa) ==
  /\ codec.pc = "idle"
  /\ codec' = [CodecIdle EXCEPT !.pc = "encoded", !.kind = "file",
                                !.from = "record", !.attrs = fa,
                                !.sourceName = FileAttributesSourceName(fa)]
  /\ UNCHANGED <<applyVars, configVars>>

\* A name found in the source directory is about to be decoded.
ReadSourceName(kind, sourceName) ==
  /\ codec.pc = "idle"
  /\ codec' = [CodecIdle EXCEPT !.pc = "encoded", !.kind = kind,
                                !.from = "name", !.sourceName = sourceName]
  /\ UNCHANGED <<applyVars, configVars>>

\* The source name is parsed.
ParseSourceName ==
  /\ codec.pc = "encoded"
  /\ codec' = [codec EXCEPT !.pc = "parsed",
                            !.parsed = Parse(codec.kind, codec.sourceName)]
  /\ UNCHANGED <<applyVars, configVars>>

\* The parsed record is encoded again.
EncodeParsed ==
  /\ codec.pc = "parsed"
  /\ codec' = [codec EXCEPT !.pc = "done",
                            !.reencoded = SourceName(codec.kind, codec.parsed)]
  /\ UNCHANGED <<applyVars, configVars>>

InitCodec ==
  InitWith({[Entries |-> NoEntries, MinVersion |-> NoVersion]}, {NoVersion},
           {[p \in DestPaths |-> Absent]}, {{}})

NextCodec ==
  \/ codec.pc = "idle" /\ \E da \in AllDirAttributes : TestDirAttributes(da)
  \/ codec.pc = "idle" /\ \E fa \in AllFileAttributes : TestFileAttributes(fa)
  \/ codec.pc = "idle" /\ \E kind \in {"dir", "file"}, sourceName \in SourceNames :
                            ReadSourceName(kind, sourceName)
  \/ ParseSourceName
  \/ EncodeParsed

SpecCodec == InitCodec /\ [][NextCodec]_vars

(***************************************************************************)
(* The template function registry.                                         *)
(***************************************************************************)
\* A call of Config.addTemplateFunc; a panic is recovered by the caller, so
\* calls may follow it.
AddTemplateFunc(key, value) ==
  /\ LET r == addTemplateFunc(templateFuncs, key, value)
     IN /\ templateFuncs' = r.templateFuncs
        /\ lastAdd' = [called |-> TRUE, key |-> key, value |-> value,
                       panicked |-> r.panicked]
  /\ UNCHANGED <<applyVars, codec, sourceDirVars, archiveVars>>

\* A Config from newConfig, or a Config literal with no registry.
InitFuncs ==
  /\ InitApplyVars({[Entries |-> NoEntries, MinVersion |-> NoVersion]},
                   {NoVersion}, {[p \in DestPaths |-> Absent]}, {{}})
  /\ codec = CodecIdle
  /\ templateFuncs \in {newConfig.templateFuncs, zeroConfig.templateFuncs}
  /\ lastAdd = NoAdd
  /\ srcfs = [p \in SourcePaths |-> NoNode]
  /\ umask = Octal(0, 2, 2)
  /\ ensure = NoEnsure(srcfs)
  /\ tar = NewTARSystem
  /\ lastOp = NoOp

NextFuncs ==
  \E key \in FuncKeys, value \in FuncValues : AddTemplateFunc(key, value)

SpecFuncs == InitFuncs /\ [][NextFuncs]_vars

(***************************************************************************)
(* The source directory.                                                   *)
(***************************************************************************)
\* A call of Config.ensureSourceDirectory, in a dry run or not.
EnsureSourceDirectory(DryRun, failAt, privErr) ==
  /\ ensure.n < MaxEnsure
  /\ LET m == ConfigMutator(DryRun)
         r == ensureSourceDirectory(srcfs, m, umask, failAt, privErr)
     IN /\ srcfs' = r.fs
        /\ ensure' = [n |-> ensure.n + 1, err |-> r.err, calls |-> r.calls,
                      fs0 |-> srcfs, mutator |-> m,
                      prevErr |-> IF ensure.n = 0 THEN "none" ELSE ensure.err,
                      prevMutator |-> ensure.mutator]
  /\ UNCHANGED <<applyVars, codec, funcVars, umask, archiveVars>>

\* Any filesystem at and above the source directory, any umask.
InitEnsure ==
  /\ InitApplyVars({[Entries |-> NoEntries, MinVersion |-> NoVersion]},
                   {NoVersion}, {[p \in DestPaths |-> Absent]}, {{}})
  /\ codec = CodecIdle
  /\ templateFuncs = newConfig.templateFuncs
  /\ lastAdd = NoAdd
  /\ srcfs \in SourceTrees
  /\ umask \in Umasks
  /\ ensure = NoEnsure(srcfs)
  /\ tar = NewTARSystem
  /\ lastOp = NoOp

NextEnsure ==
  \E DryRun \in BOOLEAN, failAt \in EnsureFailPoints, privErr \in BOOLEAN :
    EnsureSourceDirectory(DryRun, failAt, privErr)

SpecEnsure == InitEnsure /\ [][NextEnsure]_vars

(***************************************************************************)
(* Operations on a TARSystem.                                              *)
(***************************************************************************)
\* One operation: what it returned and what it left of the writer.
TAROperation(op, name, oldname, data, perm, r) ==
  /\ lastOp.n < MaxOps
  /\ tar' = r.w
  /\ lastOp' = [n |-> lastOp.n + 1, op |-> op, name |-> name,
                oldname |-> oldname, data |-> data, perm |-> perm,
                err |-> r.err]
  /\ UNCHANGED <<applyVars, codec, funcVars, sourceDirVars>>

TARSystemChmod(name, mode) ==
  TAROperation("Chmod", name, "", <<>>, mode, TARChmod(tar, name, mode))

TARSystemClose ==
  TAROperation("Close", "", "", <<>>, {}, TARClose(tar))

TARSystemMkdir(name, perm, fail) ==
  TAROperation("Mkdir", name, "", <<>>, perm, TARMkdir(tar, name, perm, fail))

TARSystemRemoveAll(name) ==
  TAROperation("RemoveAll", name, "", <<>>, {}, TARRemoveAll(tar, name))

TARSystemRename(oldpath, newpath) ==
  TAROperation("Rename", newpath, oldpath, <<>>, {},
               TARRename(tar, oldpath, newpath))

TARSystemRunScript(name, data, fail) ==
  TAROperation("RunScript", name, "", data, {},
               TARRunScript(tar, name, data, fail))

TARSystemWriteFile(filename, data, perm, fail) ==
  TAROperation("WriteFile", filename, "", data, perm,
               TARWriteFile(tar, filename, data, perm, fail))

TARSystemWriteSymlink(oldname, newname, fail) ==
  TAROperation("WriteSymlink", newname, oldname, <<>>, {},
               TARWriteSymlink(tar, oldname, newname, fail))

\* A new TARSystem.
InitTAR ==
  InitWith({[Entries |-> NoEntries, MinVersion |-> NoVersion]}, {NoVersion},
           {[p \in DestPaths |-> Absent]}, {{}})

NextTAR ==
  \/ \E name \in TARNames, mode \in TARPerms : TARSystemChmod(name, mode)
  \/ TARSystemClose
  \/ \E name \in TARNames, perm \in TARPerms, fail \in TARFails :
       TARSystemMkdir(name, perm, fail)
  \/ \E name \in TARNames : TARSystemRemoveAll(name)
  \/ \E oldpath \in TARNames, newpath \in TARNames :
       TARSystemRename(oldpath, newpath)
  \/ \E name \in TARNames, data \in TARData, fail \in TARFails :
       TARSystemRunScript(name, data, fail)
  \/ \E filename \in TARNames, data \in TARData, perm \in TARPerms,
        fail \in TARFails :
       TARSystemWriteFile(filename, data, perm, fail)
  \/ \E oldname \in TARNames, newname \in TARNames, fail \in TARFails :
       TARSystemWriteSymlink(oldname, newname, fail)

SpecTAR == InitTAR /\ [][NextTAR]_vars


(***************************************************************************)
(* Properties.                                                             *)
(***************************************************************************)

\* The destination holds what entry p of target state t asks for.
Matches(d, t, p) ==
  CASE t.Entries[p].kind = "dir"  -> d[p] = DirNode
    [] t.Entries[p].kind = "file" -> d[p] = FileNode(t.Entries[p].contents)
    [] OTHER -> TRUE

InTS(p) == p \in DOMAIN ts.Entries

Applied == { log[i] : i \in 1..Len(log) }

\* C1: an apply run with DryRun set leaves the destination and the
\* idempotency store as they were when it began: no mutating call reaches
\* the system, the store handle is read-only, and every store write the run
\* attempts is refused.
C1_DryRunLeavesDestAndStore ==
  (runs > 0 /\ config.DryRun) =>
    /\ dest = dest0
    /\ store = store0
    /\ calls = 0
    /\ opts.PersistentState.ReadOnly
    /\ setErrs = sets

\* A finished dry run that had a file to write and a Once script to record.
C1_Witness ==
  /\ pc = "done" /\ config.DryRun
  /\ sets >= 1
  /\ InTS(FileABC) /\ FileABC \in Applied
  /\ ~Matches(dest, ts, FileABC)

\* C2 as stated: the second of two identical passes over the whole target
\* state, the first of which returned no error, issues no mutating call,
\* whatever the target state holds.
C2_SecondPassNoCalls ==
  (secondPass /\ pc = "done") => calls = 0

HasRunAlwaysScript(t) ==
  ScriptS \in DOMAIN t.Entries /\ ~t.Entries[ScriptS].once

\* C2, amended: the second of two identical passes, the first of which
\* returned no error, issues no mutating call and changes nothing when the
\* target state holds no script that runs on every apply.
C2_SecondPassNoCallsWithoutRunAlways ==
  (secondPass /\ pc = "done" /\ ~HasRunAlwaysScript(ts)) =>
    /\ calls = 0
    /\ dest = dest0
    /\ store = store0

\* A second pass over a file and a Once script that the first pass ran.
C2_Witness ==
  /\ secondPass /\ pc = "done"
  /\ InTS(FileABC) /\ InTS(ScriptS)
  /\ ts.Entries[ScriptS].once
  /\ succ[ts.Entries[ScriptS].contents] = 1
  /\ Applied = DOMAIN ts.Entries

ScriptIsOnce == ScriptS \in DOMAIN source.Entries /\ source.Entries[ScriptS].once

\* The next step is the Apply of the Once script in a live run.
OnceScriptStep ==
  /\ pc = "applying"
  /\ Head(queue) = Item("apply", ScriptS)
  /\ ts.Entries[ScriptS].once
  /\ ~config.DryRun

C3_Step ==
  LET c   == ts.Entries[ScriptS].contents
      key == StoreKey(scriptStateBucket, c)
  IN /\ ScriptIsOnce => \A x \in Contents : succ'[x] <= 1
     /\ store' # store =>
          /\ OnceScriptStep
          /\ succ' = [succ EXCEPT ![c] = @ + 1]
          /\ store' = store \cup {key}
     /\ (OnceScriptStep /\ key \in store) =>
          /\ succ' = succ /\ calls' = calls /\ store' = store
          /\ ScriptS \notin failed'
     /\ (OnceScriptStep /\ key \notin store) =>
          /\ calls' = calls + 1
          /\ \/ succ' = [succ EXCEPT ![c] = @ + 1] /\ key \in store'
             \/ succ' = succ /\ store' = store /\ ScriptS \in failed'

\* C3: over live apply runs on one store, a Once script of given contents
\* is executed to success at most once: a hash enters the store only with a
\* successful execution of those contents; a recorded hash makes Apply skip
\* the script; an execution that fails records nothing, and an unrecorded
\* script (never run, failed, or edited) is executed.
C3_OnceScriptAtMostOnce == [][C3_Step]_vars

\* A second live run that skipped the Once script the first one executed.
C3_Witness ==
  /\ pc = "done" /\ runs = 2 /\ ~config.DryRun
  /\ InTS(ScriptS) /\ ts.Entries[ScriptS].once
  /\ ScriptS \in Applied
  /\ succ[ts.Entries[ScriptS].contents] = 1
  /\ calls = 0 /\ err = "nil"

\* C4 as stated: in every run, batch or with named targets, no entry is
\* applied before the entry of one of its ancestors that the run applies.
C4_ParentBeforeChild ==
  \A i \in 1..Len(log) : \A j \in 1..Len(log) :
     i < j => ~IsAncestor(log[j], log[i])

\* The run was given named targets and found them all in the target state.
NamedRun == runs > 0 /\ Len(args) > 0 /\ err # "notInSourceState"

\* C7: with named targets the entries are applied in argument order; the
\* first Apply that fails ends the run with that error, no later entry is
\* applied, and what the entries before it wrote stays.
C7_NamedTargetsStopAtFirstFailure ==
  NamedRun =>
    /\ Len(log) <= Len(args)
    /\ \A i \in 1..Len(log) : log[i] = args[i]
    /\ failed # {} <=> err = "apply"
    /\ failed # {} =>
         /\ pc = "done" /\ queue = <<>>
         /\ failed = {log[Len(log)]}
    /\ (pc = "done" /\ failed = {}) => Len(log) = Len(args)
    /\ ~config.DryRun =>
         \A i \in 1..Len(log) :
            (i < Len(log) \/ failed = {}) => Matches(dest, ts, log[i])

\* A run with two named targets that ended at the failure of the first.
C7_Witness ==
  /\ NamedRun /\ pc = "done" /\ err = "apply"
  /\ Len(args) = 2 /\ Len(log) = 1
  /\ args[1] # args[2]

\* The run is over the whole target state and has returned.
BatchDone == runs > 0 /\ Len(args) = 0 /\ pc = "done"

\* C8: with no arguments a failing entry does not stop the run: every entry
\* of the target state is attempted, once; every entry that did not fail is
\* applied; the run returns an error exactly when an entry failed.
C8_BatchGoesOnAfterFailure ==
  BatchDone =>
    /\ Applied = DOMAIN ts.Entries
    /\ Len(log) = Cardinality(DOMAIN ts.Entries)
    /\ err # "nil" <=> failed # {}
    /\ ~config.DryRun =>
         \A p \in DOMAIN ts.Entries : p \notin failed => Matches(dest, ts, p)

\* A batch run in which the script failed and the file, later in the
\* order, was still written.
C8_Witness ==
  /\ BatchDone /\ ~config.DryRun
  /\ failed = {ScriptS}
  /\ InTS(FileABC) /\ dest[FileABC] # dest0[FileABC]
  /\ err = "apply"

\* getData and Populate succeeded: the source state was read.
SourceRead == runs > 0 /\ err \notin {"getData", "populate"}

TooOld ==
  /\ version # NoVersion
  /\ source.MinVersion # NoVersion
  /\ version < source.MinVersion

\* C9: when the source state declares a MinVersion above the program's
\* version, applyArgs returns the version error with no entry applied and
\* no mutating call issued; with no MinVersion declared the gate never
\* fires.
C9_VersionGate ==
  SourceRead =>
    /\ TooOld =>
         /\ err = "version" /\ pc = "done"
         /\ log = <<>> /\ calls = 0
         /\ dest = dest0 /\ store = store0
    /\ source.MinVersion = NoVersion => err # "version"

\* A live run stopped by the gate although the destination lacked a target.
C9_Witness ==
  /\ SourceRead /\ TooOld /\ ~config.DryRun
  /\ err = "version"
  /\ \E p \in DOMAIN source.Entries : ~Matches(dest, source, p)

\* The next step is the Exact pass of a directory in a live run.
ExactStep == pc = "applying" /\ Head(queue).op = "exact" /\ ~config.DryRun

\* The extra children of directory p and all that lies below them.
ExtraBelow(d, t, p) ==
  { q \in DestPaths :
      \E c \in DestPaths :
         /\ Parent(c) = p /\ d[c] # Absent /\ c \notin DOMAIN t.Entries
         /\ (q = c \/ IsAncestor(c, q)) }

C10_Step ==
  ExactStep =>
    LET p == Head(queue).path
    IN /\ ~config.Remove => dest' = dest /\ calls' = calls
       /\ \A q \in DestPaths \ ExtraBelow(dest, ts, p) : dest'[q] = dest[q]
       /\ (config.Remove /\ p \notin failed') =>
            \A q \in ExtraBelow(dest, ts, p) : dest'[q] = Absent

\* C10: the Exact pass of a directory entry removes, with Remove enabled,
\* exactly the children that the target state does not hold (and what lies
\* below them) and nothing else; with Remove disabled it removes nothing.
C10_ExactRemovesOnlyExtraChildren == [][C10_Step]_vars

\* A finished run with Remove enabled that removed a/x from the Exact
\* directory a and kept a/b/y, which lies in a/b.
C10_Witness ==
  /\ pc = "done" /\ config.Remove /\ ~config.DryRun
  /\ InTS(DirA) /\ ts.Entries[DirA].exact /\ InTS(DirAB)
  /\ dest0[ExtraAX] # Absent /\ dest[ExtraAX] = Absent
  /\ dest[ExtraABY] # Absent

(***************************************************************************)
(* C5, C6: the attribute codec's round trips.                              *)
(***************************************************************************)
\* The record of the round trip has been encoded and parsed back.
RecordParsed ==
  codec.from = "record" /\ codec.pc \in {"parsed", "done"}

BeginsWithMarker(n) == Len(n) > 0 /\ Head(n) \in Markers

\* A target name the source naming convention can carry: it does not begin
\* with a flag marker and, for a file, does not end in the template suffix.
PlainName(kind, n) ==
  /\ ~BeginsWithMarker(n)
  /\ kind = "file" => ~HasSuffix(n, TemplateSuffix)

DirNamePart(n) == TrimPrefix(TrimPrefix(n, exactPrefix), privatePrefix)

\* What ParseFileAttributes leaves of a name after the markers it strips.
FileNamePart(n) ==
  IF HasPrefix(n, runPrefix) THEN TrimPrefix(TrimPrefix(n, runPrefix), oncePrefix)
  ELSE IF HasPrefix(n, symlinkPrefix) THEN TrimPrefix(n, symlinkPrefix)
  ELSE TrimPrefix(TrimPrefix(TrimPrefix(TrimPrefix(n, encryptedPrefix),
                                        privatePrefix),
                             emptyPrefix),
                  executablePrefix)

NamePart(kind, n) == IF kind = "dir" THEN DirNamePart(n) ELSE FileNamePart(n)

\* A source name of the naming convention: a leading dot of the target name
\* is spelled with the dot marker, never literally.
ValidSourceName(kind, n) == ~HasPrefix(NamePart(kind, n), ".")

MarkedName(kind, n) ==
  /\ ValidSourceName(kind, n)
  /\ kind = "file" => FileNamePart(n) # <<dotPrefix, "tmpl">>

C11_ReadersGetReadOnlyHandles ==
  /\ \A h \in handed : h.fs.ReadOnly
  /\ dest # dest0 => (mutator = "fs" /\ calls > 0)

(***************************************************************************)
(* C12: the template function registry.                                    *)
(***************************************************************************)
\* What one addTemplateFunc call may do to the registry.
C12_Step ==
  LET key == lastAdd'.key
  IN /\ \A k \in templateFuncs.keys :
          /\ k \in templateFuncs'.keys
          /\ templateFuncs'.value[k] = templateFuncs.value[k]
     /\ IF key \in templateFuncs.keys
          THEN lastAdd'.panicked /\ templateFuncs' = templateFuncs
          ELSE /\ ~lastAdd'.panicked
               /\ templateFuncs'.keys = templateFuncs.keys \cup {key}
               /\ templateFuncs'.value[key] = lastAdd'.value

\* C12: a call of addTemplateFunc with a key already in the registry, the
\* pre-loaded one included, panics and leaves the registry as it was; no
\* call changes the value of a registered key; a call with a new key adds
\* that key alone, with the value given.
C12_RegisteredKeysAreKept == [][C12_Step]_vars

\* After other keys were registered, a second registration of the
\* pre-loaded key has panicked and its value is still sprig's.
C12_Witness ==
  /\ lastAdd.called
  /\ lastAdd.key = sprigKey
  /\ lastAdd.panicked
  /\ templateFuncs.keys = FuncKeys
  /\ templateFuncs.value[sprigKey] = sprigValue
  /\ lastAdd.value # sprigValue

(***************************************************************************)
(* C13: Config.ensureSourceDirectory.                                      *)
(***************************************************************************)
\* What Stat says of the source directory before and after the last call.
SourceDirBefore == Stat(ensure.fs0, SourceDir)
SourceDirNow == Stat(srcfs, SourceDir)

Exists(st) == st.err = "nil"
IsDir(st) == st.err = "nil" /\ st.node.kind = "dir"

\* The last call returned nil and the source directory is a directory.
ReturnedNilAndIsDir == ensure.err = "nil" => IsDir(SourceDirNow)

\* The directory was there and private: no call on the mutator.
PrivateDirUntouched ==
  (IsDir(SourceDirBefore) /\ IsPrivate(SourceDirBefore.node))
    => ensure.calls = <<>>

\* The path was there and not a directory: the error, and no call.
NotADirectoryRefused ==
  (Exists(SourceDirBefore) /\ ~IsDir(SourceDirBefore))
    => (ensure.err = "notADirectory" /\ ensure.calls = <<>>)

\* The path was missing and the call returned nil: every call but the last
\* is a Mkdir of a directory above, the last is the Mkdir of the source
\* directory with 0o700 less the umask, which is its mode now, and the
\* directories above it are there.
MissingDirMade ==
  (SourceDirBefore.err = "ENOENT" /\ ensure.err = "nil")
    => /\ Len(ensure.calls) > 0
       /\ \A i \in 1..(Len(ensure.calls) - 1) :
            /\ ensure.calls[i].op = "Mkdir"
            /\ ensure.calls[i].path \in SourcePaths \ {SourceDir}
       /\ ensure.calls[Len(ensure.calls)]
            = Call("Mkdir", SourceDir, AndNot(Octal(7, 0, 0), umask))
       /\ \A p \in SourcePaths \ {SourceDir} : srcfs[p].kind = "dir"
       /\ srcfs[SourceDir] = DirMode(AndNot(Octal(7, 0, 0), umask))

\* C13, as stated: nil means the directory is there; a private directory is
\* left alone, so a call right after a successful one makes no call and
\* changes nothing; something that is not a directory is refused; a
\* missing directory is made after its parents with 0o700 less the umask.
C13_EnsureSourceDirectory ==
  ensure.n > 0 =>
    /\ ReturnedNilAndIsDir
    /\ PrivateDirUntouched
    /\ ensure.prevErr = "nil" => (ensure.calls = <<>> /\ srcfs = ensure.fs0)
    /\ NotADirectoryRefused
    /\ MissingDirMade

\* C13, amended: outside a dry run, nil means the directory is there, and a
\* missing directory is made after its parents with 0o700 less the umask;
\* a call right after a successful call that was not a dry run makes no
\* call and changes nothing; in a dry run or not, a private directory is
\* left alone and something that is not a directory is refused.
C13_EnsureSourceDirectoryOutsideDryRun ==
  ensure.n > 0 =>
    /\ ensure.mutator = "fs" => ReturnedNilAndIsDir
    /\ PrivateDirUntouched
    /\ (ensure.prevErr = "nil" /\ ensure.prevMutator = "fs")
         => (ensure.calls = <<>> /\ srcfs = ensure.fs0)
    /\ NotADirectoryRefused
    /\ ensure.mutator = "fs" => MissingDirMade

\* Under umask 022 a first call has made the missing directory and its
\* parents, and a second call right after it has made no call.
C13_Witness ==
  /\ ensure.n = 2
  /\ ensure.prevErr = "nil"
  /\ ensure.prevMutator = "fs"
  /\ ensure.err = "nil"
  /\ ensure.calls = <<>>
  /\ umask = Octal(0, 2, 2)
  /\ srcfs[<<"l">>] = DirMode(Octal(7, 5, 5))
  /\ srcfs[<<"l", "s">>] = DirMode(Octal(7, 5, 5))
  /\ srcfs[SourceDir] = DirMode(Octal(7, 0, 0))

(***************************************************************************)
(* C14: the archive of a TARSystem.                                        *)
(***************************************************************************)
\* The entries before the step are the first entries after it.
EntriesKept ==
  /\ Len(tar'.entries) >= Len(tar.entries)
  /\ SubSeq(tar'.entries, 1, Len(tar.entries)) = tar.entries

\* The step added one entry, with this header and this data.
Appended(typeflag, name, linkname, size, mode, data) ==
  tar'.entries =
    Append(tar.entries,
           [header |-> [headerTemplate EXCEPT !.Typeflag = typeflag,
                                              !.Name = name,
                                              !.Linkname = linkname,
                                              !.Size = size,
                                              !.Mode = mode],
            data |-> data])

C14_Step ==
  LET op == lastOp'.op
      ok == lastOp'.err = "nil"
  IN /\ EntriesKept
     /\ op \in {"Chmod", "RemoveAll", "Rename"}
          => (lastOp'.err = ErrPermission /\ tar'.entries = tar.entries)
     /\ (op \in {"Mkdir", "WriteFile", "WriteSymlink", "RunScript"} /\ ok)
          => Len(tar'.entries) = Len(tar.entries) + 1
     /\ (op = "Mkdir" /\ ok)
          => Appended(TypeDir, DirName(lastOp'.name), "", 0, lastOp'.perm, <<>>)
     /\ (op = "WriteFile" /\ ok)
          => Appended(TypeReg, lastOp'.name, "", Len(lastOp'.data),
                      lastOp'.perm, lastOp'.data)
     /\ (op = "WriteSymlink" /\ ok)
          => Appended(TypeSymlink, lastOp'.name, lastOp'.oldname, 0, {}, <<>>)
     /\ (op = "RunScript" /\ ok)
          => Appended(TypeReg, lastOp'.name, "", Len(lastOp'.data),
                      Octal(7, 0, 0), lastOp'.data)

\* C14: no operation on a TARSystem changes or drops an entry already in
\* the archive; Chmod, RemoveAll and Rename return a permission error and
\* add nothing; each Mkdir, WriteFile, WriteSymlink and RunScript that
\* returns nil adds one entry at the end, and RunScript's is the script as
\* a regular file with mode 0o700.
C14_ArchiveIsAppendOnly == [][C14_Step]_vars

\* After a Mkdir and a refused Chmod, a RunScript has added the script as
\* the second entry.
C14_Witness ==
  /\ lastOp.n = 3
  /\ lastOp.op = "RunScript"
  /\ lastOp.err = "nil"
  /\ Len(tar.entries) = 2
  /\ tar.entries[1].header.Typeflag = TypeDir
  /\ tar.entries[2].header.Typeflag = TypeReg
  /\ tar.entries[2].header.Mode = Octal(7, 0, 0)
  /\ tar.entries[2].data = <<1>>

====
